---- MODULE Spec2Model ----
(***************************************************************************)
(* Model of the create-it extension: the templates.json catalog file, the  *)
(* sidebar handlers that write it, configuration initialisation, and the   *)
(* createProjectFromTemplate workflow (prompts, conflict check, clone,     *)
(* history strip, post-install) with its child processes.                  *)
(***************************************************************************)
EXTENDS Integers, Sequences, FiniteSets, TLC

(***************************************************************************)
(* JavaScript values, as far as the program looks at them.                 *)
(***************************************************************************)
JUndef == [t |-> "undefined"]
JNull == [t |-> "null"]
JNum == [t |-> "number"]
JArr == [t |-> "array"]
JStr(s) == [t |-> "string", s |-> s]
JObj(m) == [t |-> "object", m |-> m]
NoKeys == <<>>
Range(q) == {q[i] : i \in DOMAIN q}

\* Object.keys(v): a TypeError for null and undefined, the own keys of an
\* object, nothing for a number or an empty array.
KeysThrows(v) == v.t \in {"null", "undefined"}
ObjectKeys(v) == IF v.t = "object" THEN DOMAIN v.m ELSE {}

\* v[k]: a TypeError for null and undefined, undefined for a missing key.
GetThrows(v) == v.t \in {"null", "undefined"}
Props(v) == IF "m" \in DOMAIN v THEN v.m ELSE NoKeys
Get(v, k) == IF k \in DOMAIN Props(v) THEN Props(v)[k] ELSE JUndef

\* v[k] = x: a TypeError unless v is an object or an array (an array takes
\* the property beside its elements).
SetThrows(v) == v.t \notin {"object", "array"}
Set(v, k, x) == [t |-> v.t, m |-> (k :> x) @@ Props(v)]

\* ToBoolean(v), as in `if (v)` and `!v`.
Truthy(v) ==
    CASE v.t \in {"null", "undefined"} -> FALSE
      [] v.t = "string" -> v.s # ""
      [] OTHER -> TRUE

\* `${v}` for the values the program interpolates.
ToText(v) == IF v.t = "string" THEN v.s ELSE v.t

(***************************************************************************)
(* Template records and catalog documents.                                 *)
(***************************************************************************)
Template(authors, repo, post) ==
    JObj(("description" :> JStr("d")) @@ ("homepage" :> JStr("")) @@
         ("authors" :> authors) @@ ("git-repository" :> repo) @@
         ("post-install" :> post))

getDefaultTemplates ==
    JObj(("flutter" :> JObj("basic-app" :>
              Template(JArr, JStr("flutter.git"), JStr("flutter pub get")))) @@
         ("node" :> JObj("express-starter" :>
              Template(JArr, JStr("express.git"), JStr("npm install")))) @@
         ("react" :> JObj("vite-template" :>
              Template(JArr, JStr("vite.git"), JStr("npm install")))))

OneTemplate(tmpl) == JObj("node" :> JObj("t" :> tmpl))

\* The documents a user may put into templates.json (through the sidebar's
\* editor, or with any other editor): well-formed catalogs and JSON of
\* other shapes.
Docs ==
    { JNull, JNum, JArr,
      JObj("node" :> JNull),
      OneTemplate(Template(JArr, JStr(""), JStr(""))),
      OneTemplate(Template(JArr, JStr("r.git"), JStr(""))),
      OneTemplate(Template(JArr, JStr("r.git"), JStr("make"))),
      getDefaultTemplates }

(***************************************************************************)
(* File contents: text.  A text is a JSON document in some layout, or text *)
(* that JSON.parse rejects.                                                *)
(***************************************************************************)
Missing == [fmt |-> "none", v |-> JUndef]
Garbage == [fmt |-> "raw", v |-> [t |-> "unparseable"]]
Text(fmt, v) == [fmt |-> fmt, v |-> v]
\* What templates.json may hold when the extension starts, in the layout
\* the user typed.
Texts == {Garbage} \cup {Text("raw", v) : v \in Docs}
\* The texts the sidebar's editor sends.
EditorTexts ==
    { Garbage, Text("raw", JNull),
      Text("raw", OneTemplate(Template(JArr, JStr(""), JStr("")))),
      Text("raw", OneTemplate(Template(JArr, JStr("r.git"), JStr("make")))) }

ParseThrows(text) == text.v.t = "unparseable"
JSONparse(text) == text.v
\* What JSON.stringify keeps of a value: the own properties of an object
\* that are not undefined, and of an array its elements only (a property
\* set on an array is not written).
RECURSIVE Serializable(_)
Serializable(v) ==
    CASE v.t = "object" ->
             JObj([k \in {j \in DOMAIN v.m : v.m[j].t # "undefined"} |->
                      Serializable(v.m[k])])
      [] v.t = "array" -> JArr
      [] OTHER -> v
\* JSON.stringify(v, null, 2)
JSONstringify(v) == Text("indent2", Serializable(v))

\* fs.readFileSync(templatesFile) throws when the file does not exist.
ReadThrows(f) == f = Missing

(***************************************************************************)
(* Bounds and the small sets inputs are drawn from.                        *)
(***************************************************************************)
\* Output lines one child process emits before it closes.
MaxOut == 1
\* Characters one child process writes to its stdout before it closes.
MaxChars == 3

Workflows == {"w1", "w2"}
\* defaultPath and a folder picked in the browse dialog.
DefaultPath == "home"
Folders == {DefaultPath, "picked"}
\* Project names validateInput accepts.
Names == {"app"}
\* What the user may type into the project-name box, with the characters of
\* each text.
Chars ==
    ("app" :> <<"a", "p", "p">>) @@ ("" :> <<>>) @@ (" " :> <<" ">>) @@
    ("a/b" :> <<"a", "/", "b">>) @@ ("a b" :> <<"a", " ", "b">>) @@
    ("a.b" :> <<"a", ".", "b">>) @@ (" app" :> <<" ", "a", "p", "p">>)
TypedNames == DOMAIN Chars
\* The addTemplateForm calls in flight, and what the user may type into
\* each of their prompts (besides leaving it empty or dismissing it).
Forms == {"f1", "f2"}
FormInputs ==
    [ category |-> {"node", "python"}, name |-> {"t"}, description |-> {"custom"},
      repo |-> {"x.git"}, postInstall |-> {"build"} ]
FormAnswers(prompt) == {JUndef, JStr("")} \cup {JStr(x) : x \in FormInputs[prompt]}
\* Exit codes of a child process: success, a failed command, git's fatal.
ExitCodes == {"0", "1", "128"}

(***************************************************************************)
(* The file system under the project locations.  A directory is absent,    *)
(* holds an earlier project ("old"), what a failed removal left of one     *)
(* ("oldPartial"), a clone in progress or abandoned ("clonePartial"), or a *)
(* finished clone ("clone"); git says whether it has a .git directory.     *)
(***************************************************************************)
Absent == [tree |-> "none", git |-> FALSE]
Old == [tree |-> "old", git |-> FALSE]
existsSync(d) == d.tree # "none"
join(projectPath, projectName) == <<projectPath, projectName>>
ProjectDirs == {join(f, n) : f \in Folders, n \in Names}

(***************************************************************************)
(* State.                                                                  *)
(***************************************************************************)
VARIABLES
    file,      \* the text of templates.json, or Missing
    dirs,      \* ProjectDirs -> directory
    channel,   \* the lines of the shared output channel
    active,    \* the workflows the user may start
    init,      \* where initializeConfig stands
    wf,        \* the local state of each createProjectFromTemplate run
    forms,     \* the local state of each addTemplateForm call
    stream,    \* one execStreamAsync call: its child's output and buffers
    saveNotice \* what saveTemplates last told the user

vars == <<file, dirs, channel, active, init, wf, forms, stream, saveNotice>>

NoError == <<>>
NoStream == [phase |-> "none"]
NoChild == [cmd |-> "none", phase |-> "none", out |-> 0]

\* One run of createProjectFromTemplate: the locals of the function, the
\* child process it waits for, and what it has shown, reported and done.
IdleRun ==
    [ pc |-> "idle",
      loaded |-> Missing,            \* the file as loadTemplates read it
      templates |-> JUndef,
      selectedCategory |-> JUndef,
      selectedTemplate |-> JUndef,
      template |-> JUndef,
      projectName |-> JUndef,
      projectPath |-> DefaultPath,
      seen |-> Absent,               \* the destination at the existsSync check
      child |-> NoChild,
      cancelRequested |-> FALSE,     \* the progress notification's Cancel pressed
      progress |-> <<>>,             \* progress.report calls
      spawned |-> <<>>,              \* spawn calls
      prompts |-> <<>>,              \* pickers, input boxes and dialogs shown
      messages |-> <<>>,             \* notifications shown
      fsOps |-> <<>>,                \* file-system mutations the run made
      answers |-> <<>>,              \* what the user answered to each prompt
      rmOutcome |-> "none",          \* how removing the old project went
      cloneExit |-> "none",          \* how the clone's child process ended
      stripOutcome |-> "none",       \* what the clone left of .git and how removing it went
      installExit |-> "none",        \* how the install's child process ended
      thrown |-> NoError ]           \* the error the run rejects with

fullProjectPath(r) == join(r.projectPath, r.projectName.s)

(***************************************************************************)
(* Errors, as the messages they carry.                                     *)
(***************************************************************************)
TypeError == <<"TypeError">>
RmError == <<"EPERM">>
SpawnError == <<"spawn ENOENT">>
ExitError(code) == <<"Command exited with code", code>>
\* The exit code 'close' carries after a spawn that failed with ENOENT.
SpawnFailureCode == "-2"
FailedToCreate(e) == <<"Failed to create project">> \o e

\* What a step of a run yields: the run's new locals, the lines it logged
\* and the directories afterwards.
Out(r, log, ds) == [r |-> r, log |-> log, dirs |-> ds]

\* An exception that leaves createProjectFromTemplate: the command handler
\* catches it and shows it.
Throw(r, e) ==
    [r EXCEPT !.pc = "failed", !.thrown = e, !.child = NoChild,
              !.messages = Append(@, "Error")]

\* `return` after a cancelled prompt.
Return(r) == [r EXCEPT !.pc = "aborted"]

\* `if (!selection) return`
NotSelected(v) == ~Truthy(v)

\* Only an explicit 'No' taken for a refusal.
OverwriteNotDeclined(answer) == answer # JStr("No")

\* `overwrite !== 'Yes'` negated
OverwriteConfirmed(answer) == answer = JStr("Yes")

\* Any exit taken for success.
ExitedAny(code) == code \in ExitCodes

\* `code === 0`
ExitedOk(code) == code = "0"

\* The white space among the characters used: the blank and the line feed.
WhiteSpace == {" ", "\n"}

\* String.prototype.trim, on the characters of a text.
RECURSIVE trim(_)
trim(cs) ==
    IF cs = <<>> THEN cs
    ELSE IF Head(cs) \in WhiteSpace THEN trim(Tail(cs))
    ELSE IF cs[Len(cs)] \in WhiteSpace THEN trim(SubSeq(cs, 1, Len(cs) - 1))
    ELSE cs

\* A class that lets the dot through as well.
NameCharsWithDot == {"a", "b", "p", "-", "_", "."}

\* The character class [a-zA-Z0-9-_], over the characters typed.
NameChars == {"a", "b", "p", "-", "_"}

\* The project-name box's validateInput: null when the value is accepted,
\* else the message shown while the box stays open.
validateInput(value) ==
    IF ~Truthy(JStr(value)) \/ trim(Chars[value]) = <<>>
    THEN JStr("Project name cannot be empty")
    ELSE IF \E i \in DOMAIN Chars[value] : Chars[value][i] \notin NameChars
    THEN JStr("Project name can only contain letters, numbers, hyphens, and underscores")
    ELSE JNull

loadTemplates(f) ==
    IF ReadThrows(f) \/ ParseThrows(f)
    THEN [v |-> JObj(NoKeys), error |-> TRUE]
    ELSE [v |-> JSONparse(f), error |-> FALSE]

\* From the command's start to the first prompt.
Begin(r, f, ds) ==
    LET ld == loadTemplates(f)
        r1 == [r EXCEPT !.loaded = f, !.templates = ld.v,
                        !.messages = IF ld.error
                                     THEN Append(@, "Failed to load templates")
                                     ELSE @]
    IN  IF KeysThrows(ld.v)
        THEN Out(Throw(r1, TypeError), <<"Starting", "Loading templates">>, ds)
        ELSE IF ObjectKeys(ld.v) = {}
        THEN Out([r1 EXCEPT !.pc = "noTemplates",
                            !.prompts = Append(@, "No templates found")],
                 <<"Starting", "Loading templates", "ERROR: No templates found">>, ds)
        ELSE Out([r1 EXCEPT !.pc = "category",
                            !.prompts = Append(@, "category")],
                 <<"Starting", "Loading templates", "Step 1/4">>, ds)

\* The "No templates found" warning answered or dismissed.
AfterNoTemplates(r, openFile, ds) ==
    Out(Return(r),
        IF Truthy(openFile) THEN <<"Opening templates configuration file">> ELSE <<>>,
        ds)

\* template.description, template.authors.map(...), template.homepage
TemplateItemThrows(t) == GetThrows(t) \/ Get(t, "authors").t # "array"

AfterCategory(r, selectedCategory, ds) ==
    IF NotSelected(selectedCategory)
    THEN Out(Return(r), <<"Category selection cancelled by user">>, ds)
    ELSE LET cat == Get(r.templates, selectedCategory.s)
             r1 == [r EXCEPT !.selectedCategory = selectedCategory]
         IN  IF KeysThrows(cat)
                \/ \E n \in ObjectKeys(cat) : TemplateItemThrows(Get(cat, n))
             THEN Out(Throw(r1, TypeError), <<"Selected category", "Step 2/4">>, ds)
             ELSE Out([r1 EXCEPT !.pc = "template",
                                 !.prompts = Append(@, "template")],
                      <<"Selected category", "Step 2/4">>, ds)

AfterTemplate(r, selectedTemplateItem, ds) ==
    IF NotSelected(selectedTemplateItem)
    THEN Out(Return(r), <<"Template selection cancelled by user">>, ds)
    ELSE Out([r EXCEPT !.selectedTemplate = selectedTemplateItem,
                       !.template = Get(Get(r.templates, r.selectedCategory.s),
                                        selectedTemplateItem.s),
                       !.pc = "projectName",
                       !.prompts = Append(@, "projectName")],
             <<"Selected template", "Step 3/4">>, ds)

AfterProjectName(r, projectName, ds) ==
    IF NotSelected(projectName)
    THEN Out(Return(r), <<"Project name input cancelled by user">>, ds)
    ELSE Out([r EXCEPT !.projectName = projectName,
                       !.pc = "location",
                       !.prompts = Append(@, "location")],
             <<"Project name", "Step 4/4">>, ds)

\* The clone taking its repository from the file as it is now, not from
\* the catalog loaded at the start.
StartCloneReloading(r, log, ds) ==
    LET now == Get(Get(loadTemplates(file).v, r.selectedCategory.s), r.selectedTemplate.s)
    IN  Out([r EXCEPT !.pc = "cloning",
                      !.progress = Append(@, [increment |-> 0, message |-> "Cloning repository"]),
                      !.spawned = Append(@, [cmd |-> "git clone",
                                             arg |-> ToText(Get(now, "git-repository")),
                                             cwd |-> r.projectPath,
                                             destExists |-> existsSync(ds[fullProjectPath(r)])]),
                      !.child = [cmd |-> "clone", phase |-> "spawned", out |-> 0]],
            log \o <<"STARTING PROJECT CREATION", "Cloning repository">>, ds)

\* progress.report(0), then the clone's child process is spawned.
StartClone(r, log, ds) ==
    Out([r EXCEPT !.pc = "cloning",
                  !.progress = Append(@, [increment |-> 0, message |-> "Cloning repository"]),
                  !.spawned = Append(@, [cmd |-> "git clone",
                                         arg |-> ToText(Get(r.template, "git-repository")),
                                         cwd |-> r.projectPath,
                                         destExists |-> existsSync(ds[fullProjectPath(r)])]),
                  !.child = [cmd |-> "clone", phase |-> "spawned", out |-> 0]],
        log \o <<"STARTING PROJECT CREATION", "Cloning repository">>, ds)

\* path.join, fs.existsSync, and the overwrite question or the clone.
CheckConflict(r, log, ds) ==
    LET d == ds[fullProjectPath(r)]
        r1 == [r EXCEPT !.seen = d]
    IN  IF existsSync(d)
        THEN Out([r1 EXCEPT !.pc = "overwrite",
                            !.prompts = Append(@, "overwrite")],
                 log \o <<"Project directory already exists">>, ds)
        ELSE StartClone(r1, log, ds)

\* The cancelled picker not checked for: anything but 'browse' is the default.
AfterLocationNoReturn(r, useDefault, ds) ==
    IF Truthy(useDefault) /\ useDefault.s = "browse"
    THEN Out([r EXCEPT !.pc = "browse", !.prompts = Append(@, "openDialog")],
             <<"Opening folder browser">>, ds)
    ELSE CheckConflict([r EXCEPT !.projectPath = DefaultPath],
                       <<"Using default path">>, ds)

AfterLocation(r, useDefault, ds) ==
    IF NotSelected(useDefault)
    THEN Out(Return(r), <<"Location selection cancelled by user">>, ds)
    ELSE IF useDefault.s = "browse"
    THEN Out([r EXCEPT !.pc = "browse", !.prompts = Append(@, "openDialog")],
             <<"Opening folder browser">>, ds)
    ELSE CheckConflict([r EXCEPT !.projectPath = DefaultPath],
                       <<"Using default path">>, ds)

AfterBrowse(r, folderUri, ds) ==
    IF NotSelected(folderUri)
    THEN Out(Return(r), <<"Folder browsing cancelled by user">>, ds)
    ELSE CheckConflict([r EXCEPT !.projectPath = folderUri.s],
                       <<"Selected custom path">>, ds)

\* What a failed recursive removal leaves behind.
Partial(d) ==
    [d EXCEPT !.tree = IF @ \in {"old", "oldPartial"} THEN "oldPartial"
                       ELSE "clonePartial"]

\* fs.rmSync(fullProjectPath, {recursive, force}): removes the tree, or
\* throws having removed nothing or a part of it.
RmOutcomes == {"removed", "throwsIntact", "throwsPartial"}
rmSync(d, outcome) ==
    CASE outcome = "removed" -> Absent
      [] outcome = "throwsIntact" -> d
      [] outcome = "throwsPartial" -> Partial(d)

\* The removal's error swallowed: the clone starts whatever rmSync did.
AfterOverwriteSwallowing(r, overwrite, outcome, ds) ==
    IF ~OverwriteConfirmed(overwrite)
    THEN Out(Return(r), <<"User chose not to overwrite existing project">>, ds)
    ELSE LET p == fullProjectPath(r)
         IN  StartClone([r EXCEPT !.fsOps = Append(@, "rmSync project")],
                        <<"Removing existing project directory">>,
                        [ds EXCEPT ![p] = rmSync(ds[p], outcome)])

AfterOverwrite(r, overwrite, outcome, ds) ==
    IF ~OverwriteConfirmed(overwrite)
    THEN Out(Return(r), <<"User chose not to overwrite existing project">>, ds)
    ELSE LET p == fullProjectPath(r)
             ds1 == [ds EXCEPT ![p] = rmSync(ds[p], outcome)]
             r1 == [r EXCEPT !.fsOps = Append(@, "rmSync project")]
         IN  IF outcome = "removed"
             THEN StartClone(r1, <<"Removing existing project directory",
                                   "Existing project removed">>, ds1)
             ELSE Out(Throw(r1, RmError),
                      <<"Removing existing project directory">>, ds1)

(***************************************************************************)
(* The pipeline inside withProgress.                                       *)
(***************************************************************************)
\* progress.report(100), the closing log lines and the success message.
Complete(r, log, ds) ==
    Out([r EXCEPT !.pc = "successPrompt",
                  !.child = NoChild,
                  !.progress = Append(@, [increment |-> 100,
                                          message |-> "Project created successfully"]),
                  !.messages = Append(@, "Project created successfully")],
        log \o <<"PROJECT CREATED SUCCESSFULLY">>, ds)

\* The catch block of the pipeline: log, and rethrow wrapped.
CatchAndRethrow(r, e, log, ds) ==
    Out(Throw(r, FailedToCreate(e)), log \o <<"ERROR: Failed to create project">>, ds)

\* The post-install spawned whatever the command is, the empty one too.
RunPostInstallAlways(r, log, ds) ==
    Out([r EXCEPT !.pc = "installing",
                  !.progress = Append(@, [increment |-> 60,
                                          message |-> "Installing dependencies"]),
                  !.spawned = Append(@, [cmd |-> "post-install",
                                         arg |-> ToText(Get(r.template, "post-install")),
                                         cwd |-> fullProjectPath(r),
                                         destExists |-> existsSync(ds[fullProjectPath(r)])]),
                  !.child = [cmd |-> "install", phase |-> "spawned", out |-> 0]],
        log \o <<"Running post-install commands", "Post-install output:">>, ds)

\* The post-install spawned but not awaited: completion follows at once.
RunPostInstallNoAwait(r, log, ds) ==
    LET o == Complete([r EXCEPT !.progress =
                           Append(@, [increment |-> 60,
                                      message |-> "Installing dependencies"])],
                      log, ds)
        cmd == Get(r.template, "post-install")
    IN  IF Truthy(cmd)
        THEN [o EXCEPT !.r.spawned = Append(@, [cmd |-> "post-install",
                                                arg |-> ToText(cmd),
                                                cwd |-> fullProjectPath(r),
                                                destExists |-> TRUE])]
        ELSE o

\* progress.report(60) and the post-install command, if the template has one.
RunPostInstall(r, log, ds) ==
    LET r1 == [r EXCEPT !.progress = Append(@, [increment |-> 60,
                                                message |-> "Installing dependencies"])]
        cmd == Get(r.template, "post-install")
    IN  IF Truthy(cmd)
        THEN Out([r1 EXCEPT !.pc = "installing",
                            !.spawned = Append(@, [cmd |-> "post-install",
                                                   arg |-> ToText(cmd),
                                                   cwd |-> fullProjectPath(r),
                                                   destExists |-> existsSync(ds[fullProjectPath(r)])]),
                            !.child = [cmd |-> "install", phase |-> "spawned", out |-> 0]],
                 log \o <<"Running post-install commands", "Post-install output:">>, ds)
        ELSE Complete(r1, log \o <<"Running post-install commands",
                                   "No post-install command specified">>, ds)

\* After the clone's promise resolved: progress.report(40), the .git
\* directory removed if there is one (rmThrows: fs.rmSync throws), then on
\* to the post-install.
StripHistory(r, rmThrows, ds) ==
    LET p == fullProjectPath(r)
        r1 == [r EXCEPT !.progress = Append(@, [increment |-> 40,
                                                message |-> "Cleaning up git history"])]
        log == <<"Repository cloned successfully", "Cleaning up git history">>
    IN  IF ds[p].git
        THEN LET r2 == [r1 EXCEPT !.fsOps = Append(@, "rmSync .git")]
             IN  IF rmThrows
                 THEN CatchAndRethrow(r2, RmError, log \o <<"Removing .git">>, ds)
                 ELSE RunPostInstall(r2, log \o <<"Removing .git", "Git history removed">>,
                                     [ds EXCEPT ![p].git = FALSE])
        ELSE RunPostInstall(r1, log \o <<"No .git folder found to remove">>, ds)

\* The clone's promise settled: execStreamAsync resolves on exit code 0 and
\* rejects otherwise.
CloneSettled(r, code, rmThrows, ds) ==
    IF ExitedOk(code)
    THEN StripHistory(r, rmThrows, ds)
    ELSE CatchAndRethrow(r, ExitError(code), <<>>, ds)

\* The clone's child process emitted 'error'.
CloneErrored(r, ds) ==
    CatchAndRethrow(r, SpawnError, <<>>, ds)

\* The inner try/catch around the post-install: a rejection is logged and
\* the run goes on to completion.
InstallSettled(r, code, ds) ==
    IF ExitedOk(code)
    THEN Complete(r, <<"Post-install completed successfully">>, ds)
    ELSE Complete(r, <<"ERROR: Post-install failed",
                       "Continuing despite post-install failure">>, ds)

InstallErrored(r, ds) ==
    Complete(r, <<"ERROR: Post-install failed",
                  "Continuing despite post-install failure">>, ds)

\* The success message answered or dismissed; the folder is opened on request.
AfterSuccess(r, openProject, ds) ==
    Out([r EXCEPT !.pc = "done"],
        IF Truthy(openProject) THEN <<"Opening project">> ELSE <<>>, ds)

\* The notification's Cancel button, pressed while a child process runs,
\* fires the task's cancellation token; the task takes only `progress` and
\* never looks at the token.
OnCancel(r) == [r EXCEPT !.cancelRequested = TRUE]

\* A 'data' event of the running child: a complete line is logged.
OnData(r) == [r EXCEPT !.child.out = @ + 1]

(***************************************************************************)
(* What git does to the destination.  It refuses a destination that        *)
(* exists, otherwise creates it and fills it; on failure it removes what   *)
(* it created unless it was killed before it could.                        *)
(***************************************************************************)
GitBegins(r, ds) ==
    LET p == fullProjectPath(r)
    IN  IF existsSync(ds[p])
        THEN Out([r EXCEPT !.child.phase = "refused"], <<>>, ds)
        ELSE Out([r EXCEPT !.child.phase = "working"], <<>>,
                 [ds EXCEPT ![p] = [tree |-> "clonePartial", git |-> TRUE]])

GitCodes(phase) ==
    CASE phase = "spawned" -> ExitCodes \ {"0"}
      [] phase = "refused" -> {"128"}
      [] OTHER -> ExitCodes

GitExits(r, code, hasGit, cleanup, ds) ==
    LET p == fullProjectPath(r)
    IN  IF r.child.phase # "working" THEN ds
        ELSE IF code = "0" THEN [ds EXCEPT ![p] = [tree |-> "clone", git |-> hasGit]]
        ELSE IF cleanup THEN [ds EXCEPT ![p] = Absent]
        ELSE ds

(***************************************************************************)
(* The sidebar and configuration initialisation.                           *)
(***************************************************************************)
\* The text written before it is parsed.
saveTemplatesWriteFirst(f, templatesJson) == templatesJson

\* SidebarProvider.saveTemplates: the text is written as given once
\* JSON.parse has accepted it.
saveTemplates(f, templatesJson) ==
    IF ParseThrows(templatesJson) THEN f ELSE templatesJson

\* What saveTemplates shows: the information message after the write, or
\* the error message of its catch.
saveTemplatesMessage(templatesJson) ==
    IF ParseThrows(templatesJson) THEN "Failed to save templates"
    ELSE "Templates saved successfully"

\* No saveTemplates message handled yet.
NoNotice == [sent |-> "none", message |-> "none"]

\* The template addTemplateForm builds from the answers.
NewTemplate(description, repo, postInstall) ==
    JObj(("description" :> JStr(description)) @@ ("homepage" :> JStr("")) @@
         ("authors" :> JArr) @@ ("git-repository" :> JStr(repo)) @@
         ("post-install" :> JStr(postInstall)))

\* The template written into an empty document: what the file held is lost.
addTemplateOverEmpty(f, category, name, description, repo, postInstall) ==
    IF ReadThrows(f) \/ ParseThrows(f) THEN [file |-> f, threw |-> TRUE]
    ELSE [file |-> JSONstringify(
                       JObj(category :> JObj(name :>
                                NewTemplate(description, repo, postInstall)))),
          threw |-> FALSE]

\* An addTemplateForm that starts a new document when the file cannot be read
\* or parsed.
addTemplateCreating(f, category, name, description, repo, postInstall) ==
    [file |-> JSONstringify(
                  JObj(category :> JObj(name :>
                           NewTemplate(description, repo, postInstall)))),
     threw |-> FALSE]

\* addTemplateForm after its last prompt: the file is read and parsed, the
\* category created unless it is there, the template put under its name,
\* and the whole document written back.  All of it is synchronous.  A throw
\* leaves the file as it was.
addTemplate(f, category, name, description, repo, postInstall) ==
    LET templates == JSONparse(f)
        created == IF Truthy(Get(templates, category)) THEN templates
                   ELSE Set(templates, category, JObj(NoKeys))
        entry == Get(created, category)
    IN  IF ReadThrows(f) \/ ParseThrows(f) THEN [file |-> f, threw |-> TRUE]
        ELSE IF GetThrows(templates) \/ SetThrows(templates) \/ SetThrows(entry)
        THEN [file |-> f, threw |-> TRUE]
        ELSE [file |-> JSONstringify(
                          Set(created, category,
                              Set(entry, name,
                                  NewTemplate(description, repo, postInstall)))),
              threw |-> FALSE]

\* The prompts of addTemplateForm, in the order they are shown.
FormPrompts == <<"category", "name", "description", "repo", "postInstall">>
IdleForm ==
    [ pc |-> "idle",               \* the prompt waited at, or how the call ended
      category |-> "", name |-> "", description |-> "", repo |-> "",
      postInstall |-> "",          \* the answers so far
      last |-> JUndef ]            \* the user's latest answer

\* One prompt of addTemplateForm answered with v: `if (!v) return`, else the
\* next prompt, and after the last one the read and the write.
AfterFormPrompt(frm, v, f) ==
    LET i == CHOOSE j \in DOMAIN FormPrompts : FormPrompts[j] = frm.pc
        frm1 == [frm EXCEPT ![frm.pc] = ToText(v)]
    IN  IF ~Truthy(v) THEN [frm |-> [frm EXCEPT !.pc = "returned"], file |-> f]
        ELSE IF i < Len(FormPrompts)
        THEN [frm |-> [frm1 EXCEPT !.pc = FormPrompts[i + 1]], file |-> f]
        ELSE LET w == addTemplate(f, frm1.category, frm1.name,
                                  frm1.description, frm1.repo, frm1.postInstall)
             IN  [frm |-> [frm1 EXCEPT !.pc = IF w.threw THEN "threw" ELSE "written"],
                  file |-> IF w.threw THEN f ELSE w.file]

\* initializeConfig up to its first await: the templates file is looked for
\* and, when there is none, the default catalog is fetched.
initializeConfig(f) == IF f = Missing THEN "fetching" ELSE "done"

\* The catalog the fetch may deliver.
RemoteDocs == {getDefaultTemplates}

(***************************************************************************)
(* execStreamAsync, chunk by chunk.  A child's output is a sequence of      *)
(* characters; it arrives in 'data' events of any size; 'close' comes      *)
(* after the last of them.                                                 *)
(***************************************************************************)
Streams == {"stdout", "stderr"}
Alphabet == {"a", " ", "\n"}

RECURSIVE SeqsUpTo(_)
SeqsUpTo(n) ==
    IF n = 0 THEN {<<>>}
    ELSE LET shorter == SeqsUpTo(n - 1)
         IN  shorter \cup {Append(q, c) : q \in {x \in shorter : Len(x) = n - 1},
                                          c \in Alphabet}

\* What a child may write: anything to stdout, and to stderr nothing, a
\* line, or a line it does not terminate.
Outputs ==
    [ stdout : SeqsUpTo(MaxChars),
      stderr : {<<>>, <<"a", "\n">>, <<" ", "a">>} ]

\* String.prototype.split('\n'): the pieces between the line feeds, always
\* at least one.
RECURSIVE split(_)
split(cs) ==
    IF \A i \in DOMAIN cs : cs[i] # "\n" THEN <<cs>>
    ELSE LET i == CHOOSE j \in DOMAIN cs :
                      cs[j] = "\n" /\ \A k \in 1..(j - 1) : cs[k] # "\n"
         IN  <<SubSeq(cs, 1, i - 1)>> \o split(SubSeq(cs, i + 1, Len(cs)))

\* log(`  ${text}`), for the stream it came from.
LogLine(s, text) == [from |-> s, text |-> <<" ", " ">> \o text]

\* lines.forEach: each line that is not blank is logged, trimmed.
RECURSIVE Forward(_, _)
Forward(s, lines) ==
    IF lines = <<>> THEN <<>>
    ELSE (IF trim(Head(lines)) # <<>> THEN <<LogLine(s, trim(Head(lines)))>> ELSE <<>>)
         \o Forward(s, Tail(lines))

StartedStream(out) ==
    [ phase |-> "running",
      out |-> out,                                  \* what the child has yet to write
      received |-> [s \in Streams |-> <<>>],        \* what arrived in 'data' events
      buffer |-> [s \in Streams |-> <<>>],          \* stdoutBuffer, stderrBuffer
      log |-> <<>>,                                 \* the lines logged
      settled |-> "pending",                        \* the promise
      error |-> NoError ]                           \* what it was rejected with

\* A 'data' handler that only collects: nothing is logged before 'close'.
onDataCollecting(st, s, data) ==
    [st EXCEPT !.buffer[s] = @ \o data]

\* A 'data' handler that splits each chunk on its own: what the chunk before
\* left unterminated is forgotten.
onDataForgetting(st, s, data) ==
    LET lines == split(data)
    IN  [st EXCEPT !.buffer[s] = lines[Len(lines)],
                   !.log = @ \o Forward(s, SubSeq(lines, 1, Len(lines) - 1))]

\* The 'data' handler of stdout or stderr.
onData(st, s, data) ==
    LET lines == split(st.buffer[s] \o data)
    IN  [st EXCEPT !.buffer[s] = lines[Len(lines)],
                   !.log = @ \o Forward(s, SubSeq(lines, 1, Len(lines) - 1))]

\* A 'close' handler whose resolve and reject replace an earlier settlement.
onCloseResettling(st, code) ==
    [st EXCEPT !.phase = "closed",
               !.log = @ \o Forward("stdout", <<st.buffer["stdout"]>>)
                         \o Forward("stderr", <<st.buffer["stderr"]>>),
               !.settled = IF ExitedOk(code) THEN "resolved" ELSE "rejected",
               !.error = IF ExitedOk(code) THEN NoError ELSE ExitError(code)]

\* The 'close' handler: what is left in the buffers is logged, then the
\* promise is settled by the exit code.  resolve and reject do nothing to a
\* promise that is settled.
onClose(st, code) ==
    [st EXCEPT !.phase = "closed",
               !.log = @ \o Forward("stdout", <<st.buffer["stdout"]>>)
                         \o Forward("stderr", <<st.buffer["stderr"]>>),
               !.settled = IF st.settled # "pending" THEN @
                           ELSE IF ExitedOk(code) THEN "resolved" ELSE "rejected",
               !.error = IF st.settled # "pending" \/ ExitedOk(code) THEN @
                         ELSE ExitError(code)]

\* The 'error' handler.
onError(st) ==
    [st EXCEPT !.phase = "errored",
               !.settled = IF @ = "pending" THEN "rejected" ELSE @,
               !.error = IF st.settled = "pending" THEN SpawnError ELSE @]

(***************************************************************************)
(* Actions.                                                                *)
(***************************************************************************)
\* The user's answer to the prompt a run is waiting at.
Answered(r, v) == [r EXCEPT !.answers = Append(@, [prompt |-> r.pc, value |-> v])]

Apply(w, o) ==
    /\ wf' = [wf EXCEPT ![w] = o.r]
    /\ channel' = channel \o o.log
    /\ dirs' = o.dirs
    /\ UNCHANGED <<file, active, init, forms, stream, saveNotice>>

\* Activation runs initializeConfig before any command is registered.
Activate ==
    /\ init = "start"
    /\ init' = initializeConfig(file)
    /\ UNCHANGED <<file, dirs, channel, active, wf, forms, stream, saveNotice>>

\* The fetch resolved: the catalog is written and the user is told.
FetchResolves ==
    /\ init = "fetching"
    /\ \E doc \in RemoteDocs : file' = JSONstringify(doc)
    /\ init' = "done"
    /\ UNCHANGED <<dirs, channel, active, wf, forms, stream, saveNotice>>

\* The fetch, or res.json(), rejected: initializeConfig rejects.
FetchRejects ==
    /\ init = "fetching"
    /\ init' = "failed"
    /\ UNCHANGED <<file, dirs, channel, active, wf, forms, stream, saveNotice>>

\* The sidebar's saveTemplates message.
SaveTemplates ==
    /\ init # "start"
    /\ \E templatesJson \in EditorTexts :
           /\ file' = saveTemplates(file, templatesJson)
           /\ saveNotice' = [sent |-> IF templatesJson = Garbage THEN "garbage" ELSE "json",
                             message |-> saveTemplatesMessage(templatesJson)]
    /\ UNCHANGED <<dirs, channel, active, init, wf, forms, stream>>

\* The sidebar's save while a run of the command waits on a prompt or a
\* child process.  A save before the run starts leaves a file Init has
\* already; one after its end the run does not see.
SaveDuringRun ==
    /\ \E w \in Workflows : wf[w].pc \notin {"idle", "aborted", "failed", "done"}
    /\ SaveTemplates

\* An addTemplateForm call whose five prompts were answered reaches its read
\* and write.  Here the form is completed while a run of the command waits
\* on a prompt or a child process; SpecCatalog has the form at any time,
\* prompt by prompt.
AddTemplate ==
    /\ \E w \in Workflows : wf[w].pc \notin {"idle", "aborted", "failed", "done"}
    /\ \E description \in FormInputs.description, repo \in FormInputs.repo,
          postInstall \in FormInputs.postInstall :
           file' = addTemplate(file, "node", "t", description, repo, postInstall).file
    /\ UNCHANGED <<dirs, channel, active, init, wf, forms, stream, saveNotice>>

\* The create-it.createProject command: the channel is cleared first.
Start(w) ==
    /\ init # "start"
    /\ w \in active
    /\ wf[w].pc = "idle"
    /\ LET o == Begin(wf[w], file, dirs)
       IN  /\ wf' = [wf EXCEPT ![w] = o.r]
           /\ channel' = o.log
    /\ UNCHANGED <<file, dirs, active, init, forms, stream, saveNotice>>

AnswerNoTemplates(w) ==
    /\ wf[w].pc = "noTemplates"
    /\ \E openFile \in {JUndef, JStr("Open Templates File")} :
           Apply(w, AfterNoTemplates(Answered(wf[w], openFile), openFile, dirs))

PickCategory(w) ==
    /\ wf[w].pc = "category"
    /\ \E c \in {JUndef} \cup {JStr(k) : k \in ObjectKeys(wf[w].templates)} :
           Apply(w, AfterCategory(Answered(wf[w], c), c, dirs))

PickTemplate(w) ==
    /\ wf[w].pc = "template"
    /\ \E t \in {JUndef} \cup
                {JStr(k) : k \in ObjectKeys(Get(wf[w].templates, wf[w].selectedCategory.s))} :
           Apply(w, AfterTemplate(Answered(wf[w], t), t, dirs))

\* The project-name box is dismissed, or a text is typed and Enter pressed:
\* the box resolves only with a text validateInput returned null for, and
\* stays open otherwise.
EnterProjectName(w) ==
    /\ wf[w].pc = "projectName"
    /\ \/ Apply(w, AfterProjectName(Answered(wf[w], JUndef), JUndef, dirs))
       \/ \E k \in TypedNames :
              IF validateInput(k) = JNull
              THEN Apply(w, AfterProjectName(Answered(wf[w], JStr(k)), JStr(k), dirs))
              ELSE UNCHANGED vars

PickLocation(w) ==
    /\ wf[w].pc = "location"
    /\ \E u \in {JUndef, JStr("default"), JStr("browse")} :
           Apply(w, AfterLocation(Answered(wf[w], u), u, dirs))

BrowseFolder(w) ==
    /\ wf[w].pc = "browse"
    /\ \E f \in {JUndef} \cup {JStr(k) : k \in Folders} :
           Apply(w, AfterBrowse(Answered(wf[w], f), f, dirs))

AnswerOverwrite(w) ==
    /\ wf[w].pc = "overwrite"
    /\ \E a \in {JUndef, JStr("Yes"), JStr("No")}, outcome \in RmOutcomes :
           Apply(w, AfterOverwrite(
                        [Answered(wf[w], a) EXCEPT !.rmOutcome =
                             IF a = JStr("Yes") THEN outcome ELSE "none"],
                        a, outcome, dirs))

RequestCancel(w) ==
    /\ wf[w].pc \in {"cloning", "installing"}
    /\ ~wf[w].cancelRequested
    /\ wf' = [wf EXCEPT ![w] = OnCancel(@)]
    /\ UNCHANGED <<file, dirs, channel, active, init, forms, stream, saveNotice>>

ChildData(w) ==
    /\ wf[w].pc \in {"cloning", "installing"}
    /\ wf[w].child.phase # "spawned" \/ wf[w].child.cmd = "install"
    /\ wf[w].child.out < MaxOut
    /\ wf' = [wf EXCEPT ![w] = OnData(@)]
    /\ channel' = Append(channel, "  " \o wf[w].child.cmd \o " output")
    /\ UNCHANGED <<file, dirs, active, init, forms, stream, saveNotice>>

GitStarts(w) ==
    /\ wf[w].pc = "cloning"
    /\ wf[w].child.phase = "spawned"
    /\ Apply(w, GitBegins(wf[w], dirs))

CloneClose(w) ==
    /\ wf[w].pc = "cloning"
    /\ \E code \in GitCodes(wf[w].child.phase), hasGit \in BOOLEAN,
          cleanup \in BOOLEAN, rmThrows \in BOOLEAN :
           LET ds == GitExits(wf[w], code, hasGit, cleanup, dirs)
               strip == CASE code # "0" -> "none"
                          [] ~ds[fullProjectPath(wf[w])].git -> "absent"
                          [] rmThrows -> "threw"
                          [] OTHER -> "removed"
           IN  Apply(w, CloneSettled([wf[w] EXCEPT !.cloneExit = code,
                                                   !.stripOutcome = strip],
                                     code, rmThrows, ds))

CloneError(w) ==
    /\ wf[w].pc = "cloning"
    /\ wf[w].child.phase = "spawned"
    /\ Apply(w, CloneErrored([wf[w] EXCEPT !.cloneExit = "error"], dirs))

InstallClose(w) ==
    /\ wf[w].pc = "installing"
    /\ \E code \in ExitCodes :
           Apply(w, InstallSettled([wf[w] EXCEPT !.installExit = code], code, dirs))

InstallError(w) ==
    /\ wf[w].pc = "installing"
    /\ wf[w].child.out = 0
    /\ Apply(w, InstallErrored([wf[w] EXCEPT !.installExit = "error"], dirs))

AnswerSuccess(w) ==
    /\ wf[w].pc = "successPrompt"
    /\ \E a \in {JUndef, JStr("Open Project"), JStr("Open in New Window")} :
           Apply(w, AfterSuccess(Answered(wf[w], a), a, dirs))

\* The sidebar's addTemplate message: addTemplateForm is called and not
\* awaited, and shows its first prompt.
OpenForm(f) ==
    /\ init # "start"
    /\ forms[f].pc = "idle"
    /\ forms' = [forms EXCEPT ![f] = [@ EXCEPT !.pc = FormPrompts[1]]]
    /\ UNCHANGED <<file, dirs, channel, active, init, wf, stream, saveNotice>>

\* The prompt a form waits at is answered, left empty or dismissed.
AnswerForm(f) ==
    /\ forms[f].pc \in Range(FormPrompts)
    /\ \E v \in FormAnswers(forms[f].pc) :
           LET o == AfterFormPrompt([forms[f] EXCEPT !.last = v], v, file)
           IN  /\ forms' = [forms EXCEPT ![f] = o.frm]
               /\ file' = o.file
    /\ UNCHANGED <<dirs, channel, active, init, wf, stream, saveNotice>>

Workflow(w) ==
    \/ Start(w) \/ AnswerNoTemplates(w) \/ PickCategory(w) \/ PickTemplate(w)
    \/ EnterProjectName(w) \/ PickLocation(w) \/ BrowseFolder(w)
    \/ AnswerOverwrite(w) \/ RequestCancel(w) \/ ChildData(w) \/ GitStarts(w)
    \/ CloneClose(w) \/ CloneError(w) \/ InstallClose(w) \/ InstallError(w)
    \/ AnswerSuccess(w)

Next ==
    \/ Activate
    \/ FetchResolves
    \/ FetchRejects
    \/ SaveDuringRun
    \/ AddTemplate
    \/ \E w \in Workflows : Workflow(w)

\* The disk as activation finds it: any templates file or none, and each
\* project location free or taken by an earlier project.
InitDisk ==
    /\ file \in {Missing, JSONstringify(getDefaultTemplates)} \cup Texts
    /\ dirs \in [ProjectDirs -> {Absent, Old}]
    /\ channel = <<>>
    /\ init = "start"
    /\ wf = [w \in Workflows |-> IdleRun]

\* No addTemplateForm call yet, and no child process streaming.
NoForms == forms = [f \in Forms |-> IdleForm]

\* One run of the command at a time.
Init == InitDisk /\ active = {"w1"} /\ NoForms /\ stream = NoStream /\ saveNotice = NoNotice

Spec == Init /\ [][Next]_vars

\* One execStreamAsync call and the child it spawned.
InitStream ==
    /\ file = Missing
    /\ dirs = [p \in ProjectDirs |-> Absent]
    /\ channel = <<>>
    /\ init = "start"
    /\ wf = [w \in Workflows |-> IdleRun]
    /\ active = {}
    /\ NoForms
    /\ saveNotice = NoNotice
    /\ \E out \in Outputs : stream = StartedStream(out)

\* The next k characters of stream s arrive as one chunk.
StreamData(s) ==
    /\ stream.phase = "running"
    /\ \E k \in 1..Len(stream.out[s]) :
           LET data == SubSeq(stream.out[s], 1, k)
           IN  stream' = onData([stream EXCEPT
                                    !.out[s] = SubSeq(@, k + 1, Len(@)),
                                    !.received[s] = @ \o data],
                                s, data)
    /\ UNCHANGED <<file, dirs, channel, active, init, wf, forms, saveNotice>>

\* The child has exited and its pipes are drained.
StreamClose ==
    /\ stream.phase = "running"
    /\ \A s \in Streams : stream.out[s] = <<>>
    /\ \E code \in ExitCodes : stream' = onClose(stream, code)
    /\ UNCHANGED <<file, dirs, channel, active, init, wf, forms, saveNotice>>

\* The child could not be spawned.
StreamError ==
    /\ stream.phase = "running"
    /\ \A s \in Streams : stream.received[s] = <<>>
    /\ stream' = onError(stream)
    /\ UNCHANGED <<file, dirs, channel, active, init, wf, forms, saveNotice>>

\* After a failed spawn the child's 'close' follows its 'error', with the
\* errno as the exit code.
StreamCloseAfterError ==
    /\ stream.phase = "errored"
    /\ stream' = onClose(stream, SpawnFailureCode)
    /\ UNCHANGED <<file, dirs, channel, active, init, wf, forms, saveNotice>>

NextStream ==
    \/ \E s \in Streams : StreamData(s)
    \/ StreamClose
    \/ StreamError
    \/ StreamCloseAfterError

SpecStream == InitStream /\ [][NextStream]_vars

\* One run of the command, and one execStreamAsync call whose child prints
\* a line, under the assumptions that every prompt is answered or dismissed
\* in the end and that every child process ends with 'close' or 'error'.
\* Pressing Cancel and typing a name the box rejects are left to the user:
\* nothing makes them happen.
InitLive ==
    /\ file = Text("raw", OneTemplate(Template(JArr, JStr("r.git"), JStr("make"))))
    /\ dirs \in {d \in [ProjectDirs -> {Absent, Old}] :
                    \A p \in ProjectDirs : p[1] # DefaultPath => d[p] = Absent}
    /\ channel = <<>>
    /\ init = "start"
    /\ wf = [w \in Workflows |-> IdleRun]
    /\ active = {"w1"}
    /\ NoForms
    /\ saveNotice = NoNotice
    /\ stream = StartedStream([stdout |-> <<"a", "\n">>, stderr |-> <<>>])

NextLive ==
    \/ Activate
    \/ \E w \in Workflows :
           \/ Start(w) \/ PickCategory(w) \/ PickTemplate(w) \/ EnterProjectName(w)
           \/ PickLocation(w) \/ BrowseFolder(w) \/ AnswerOverwrite(w)
           \/ RequestCancel(w) \/ ChildData(w) \/ GitStarts(w) \/ CloneClose(w)
           \/ CloneError(w) \/ InstallClose(w) \/ InstallError(w) \/ AnswerSuccess(w)
    \/ NextStream

\* The prompt run w waits at returns.
PromptReturns(w) ==
    \/ PickCategory(w) \/ PickTemplate(w) \/ EnterProjectName(w) \/ PickLocation(w)
    \/ BrowseFolder(w) \/ AnswerOverwrite(w) \/ AnswerSuccess(w)

\* The child run w waits for emits 'close' or 'error'.
ChildEnds(w) ==
    \/ CloneClose(w) \/ CloneError(w) \/ InstallClose(w) \/ InstallError(w)

\* The stream's child writes on and ends.
StreamGoesOn ==
    \/ \E s \in Streams : StreamData(s)
    \/ StreamClose \/ StreamError

SpecLive ==
    /\ InitLive /\ [][NextLive]_vars
    /\ \A w \in Workflows : WF_vars(PromptReturns(w) \/ ChildEnds(w))
    /\ WF_vars(StreamGoesOn)

\* Two runs of the command at once (the command palette and the sidebar's
\* createProject button start it independently), over one catalog whose
\* template has a post-install command; the user leaves the default
\* location, does not press Cancel, the children print nothing, and the
\* post-install, once started, is still running.
InitPair ==
    /\ file = Text("raw", OneTemplate(Template(JArr, JStr("r.git"), JStr("make"))))
    /\ dirs \in {d \in [ProjectDirs -> {Absent, Old}] :
                    \A p \in ProjectDirs : p[1] # DefaultPath => d[p] = Absent}
    /\ channel = <<>>
    /\ init = "start"
    /\ wf = [w \in Workflows |-> IdleRun]
    /\ active = Workflows
    /\ NoForms
    /\ saveNotice = NoNotice
    /\ stream = NoStream

NextPair ==
    \/ Activate
    \/ \E w \in Workflows :
           \/ Start(w) \/ PickCategory(w) \/ PickTemplate(w) \/ EnterProjectName(w)
           \/ PickLocation(w) \/ AnswerOverwrite(w) \/ GitStarts(w) \/ CloneClose(w)

SpecPair == InitPair /\ [][NextPair]_vars

\* The sidebar alone: activation, the editor's saves and the add-template
\* forms, over any templates file, the empty catalog among them.
InitCatalog ==
    /\ file \in {Missing, Text("raw", JObj(NoKeys))} \cup Texts
    /\ dirs = [p \in ProjectDirs |-> Absent]
    /\ channel = <<>>
    /\ init = "start"
    /\ wf = [w \in Workflows |-> IdleRun]
    /\ active = {}
    /\ NoForms
    /\ saveNotice = NoNotice
    /\ stream = NoStream

NextCatalog ==
    \/ Activate
    \/ FetchResolves
    \/ FetchRejects
    \/ SaveTemplates
    \/ \E f \in Forms : OpenForm(f) \/ AnswerForm(f)

SpecCatalog == InitCatalog /\ [][NextCatalog]_vars

(***************************************************************************)
(* What the properties below read off a run.                               *)
(***************************************************************************)
IsPrefix(a, b) == Len(a) <= Len(b) /\ \A i \in DOMAIN a : a[i] = b[i]
Increments(r) == [i \in DOMAIN r.progress |-> r.progress[i].increment]

\* What a run tells its caller and the user about how it went: a rejection,
\* a plain return, or the success message.
ReportedOutcome(r) ==
    CASE r.pc = "failed" -> "Failed"
      [] r.pc = "aborted" -> "Aborted"
      [] "Project created successfully" \in Range(r.messages) -> "Success"
      [] OTHER -> "Pending"

\* The error the clone's promise rejected with.
CloneRejection(r) ==
    IF r.cloneExit = "error" THEN SpawnError ELSE ExitError(r.cloneExit)

SelectionPrompts == {"category", "template", "projectName", "location", "browse"}

\* A document that is a mapping from categories to mappings.
WellFormed(v) == v.t = "object" /\ \A c \in DOMAIN v.m : v.m[c].t = "object"

\* Every template of a well-formed document has a non-empty repository.
ValidCatalog(v) ==
    /\ WellFormed(v)
    /\ \A c \in DOMAIN v.m : \A n \in DOMAIN v.m[c].m :
           /\ v.m[c].m[n].t = "object"
           /\ Get(v.m[c].m[n], "git-repository").t = "string"
           /\ Get(v.m[c].m[n], "git-repository").s # ""

Malformed(text) == ParseThrows(text) \/ ~WellFormed(JSONparse(text))

\* A catalog with no category to offer.
EmptyCatalog(v) == ~KeysThrows(v) /\ ObjectKeys(v) = {}

(***************************************************************************)
(* C1: a clone that exits with a non-zero code or fails to spawn ends the  *)
(* run as failed: the clone was spawned exactly once and nothing else      *)
(* was, the history strip and the install never ran, no success was        *)
(* reported, and the error the run rejects with carries the message of the *)
(* clone's error.                                                          *)
(***************************************************************************)
C1_CloneFailureHalts ==
    \A w \in Workflows :
        LET r == wf[w]
        IN  r.cloneExit \notin {"none", "0"} =>
                /\ r.pc = "failed"
                /\ Len(r.spawned) = 1
                /\ r.spawned[1].cmd = "git clone"
                /\ Increments(r) = <<0>>
                /\ "rmSync .git" \notin Range(r.fsOps)
                /\ ReportedOutcome(r) = "Failed"
                /\ "Project created successfully" \notin Range(r.messages)
                /\ r.thrown = FailedToCreate(CloneRejection(r))

C1_Witness ==
    \E w \in Workflows :
        /\ wf[w].cloneExit = "128"
        /\ wf[w].thrown = <<"Failed to create project", "Command exited with code", "128">>

(***************************************************************************)
(* C2: a post-install that exits non-zero or fails to spawn leaves the run *)
(* neither failed nor plainly successful: the project directory is still   *)
(* there, the failure is in the log, and the reported outcome differs from *)
(* the one a clean install gets.                                           *)
(***************************************************************************)
C2_InstallFailureIsPartialSuccess ==
    \A w \in Workflows :
        LET r == wf[w]
        IN  r.installExit \notin {"none", "0"} =>
                /\ existsSync(dirs[fullProjectPath(r)])
                /\ "ERROR: Post-install failed" \in Range(channel)
                /\ ReportedOutcome(r) \notin {"Failed", "Success"}

(***************************************************************************)
(* C3: once cancellation is requested while a child process runs, the run  *)
(* goes no further: no other child process is spawned and no success is    *)
(* reported.                                                               *)
(***************************************************************************)
C3_CancelStopsRun ==
    \A w \in Workflows :
        LET r == wf[w]
        IN  r.cancelRequested =>
                /\ r.pc \notin {"successPrompt", "done"}
                /\ ReportedOutcome(r) # "Success"

(***************************************************************************)
(* C4: the steps run in the order clone, history strip, install, done, one *)
(* at a time: the strip is reported only after the clone's child has       *)
(* exited with code 0, the install's child is spawned only after the strip *)
(* (no .git is left), and completion is reported only when no child is     *)
(* running and a spawned install has ended.                                *)
(***************************************************************************)
C4_StepsInOrder ==
    \A w \in Workflows :
        LET r == wf[w]
            inc == Increments(r)
        IN  /\ IsPrefix(inc, <<0, 40, 60, 100>>)
            /\ Len(r.spawned) <= 2
            /\ (r.child.cmd = "clone" => r.pc = "cloning" /\ inc = <<0>>
                                         /\ Len(r.spawned) = 1)
            /\ (Len(inc) >= 2 => r.cloneExit = "0")
            /\ (Len(r.spawned) = 2 =>
                    /\ r.spawned[1].cmd = "git clone"
                    /\ r.spawned[2].cmd = "post-install"
                    /\ Len(inc) >= 3
                    /\ ~dirs[fullProjectPath(r)].git)
            /\ (r.child.cmd = "install" => r.pc = "installing" /\ inc = <<0, 40, 60>>)
            /\ (Len(inc) = 4 =>
                    /\ r.child = NoChild
                    /\ (Len(r.spawned) = 2 => r.installExit # "none"))

C4_Witness ==
    \E w \in Workflows :
        /\ wf[w].pc = "done"
        /\ Increments(wf[w]) = <<0, 40, 60, 100>>
        /\ Len(wf[w].spawned) = 2
        /\ wf[w].installExit = "0"

(***************************************************************************)
(* C5: a selection prompt (category, template, project name, location,     *)
(* folder) that returns nothing ends the run there: it is the last prompt  *)
(* shown, nothing was removed, no child process was spawned, no progress   *)
(* was reported and every project location is as activation found it.      *)
(***************************************************************************)
C5_CancelledSelectionAborts ==
    \A w \in Workflows :
        LET r == wf[w]
        IN  \A i \in DOMAIN r.answers :
                (r.answers[i].prompt \in SelectionPrompts /\ r.answers[i].value = JUndef) =>
                    /\ r.pc = "aborted"
                    /\ i = Len(r.answers)
                    /\ Len(r.prompts) = i
                    /\ r.spawned = <<>>
                    /\ r.fsOps = <<>>
                    /\ r.progress = <<>>
                    /\ r.thrown = NoError
                    /\ \A p \in ProjectDirs : dirs[p] \in {Absent, Old}

C5_Witness ==
    \E w \in Workflows :
        /\ wf[w].pc = "aborted"
        /\ Len(wf[w].answers) = 5
        /\ wf[w].answers[5] = [prompt |-> "browse", value |-> JUndef]

(***************************************************************************)
(* C6: when the destination exists and the overwrite question is answered  *)
(* with anything but 'Yes', the run ends, the directory is as the check    *)
(* found it, and no clone was started.                                     *)
(***************************************************************************)
C6_DeclinedOverwriteKeepsDirectory ==
    \A w \in Workflows :
        LET r == wf[w]
        IN  \A i \in DOMAIN r.answers :
                (r.answers[i].prompt = "overwrite" /\ r.answers[i].value # JStr("Yes")) =>
                    /\ r.pc = "aborted"
                    /\ existsSync(r.seen)
                    /\ dirs[fullProjectPath(r)] = r.seen
                    /\ r.spawned = <<>>
                    /\ r.fsOps = <<>>

C6_Witness ==
    \E w \in Workflows :
        /\ wf[w].pc = "aborted"
        /\ wf[w].answers # <<>>
        /\ wf[w].answers[Len(wf[w].answers)] = [prompt |-> "overwrite", value |-> JUndef]
        /\ dirs[fullProjectPath(wf[w])] = Old

(***************************************************************************)
(* C7: the clone is never spawned while the destination exists; after a    *)
(* confirmed overwrite whose removal succeeded the clone starts on an      *)
(* absent destination, and after one whose removal threw no clone starts   *)
(* and the run fails.                                                      *)
(***************************************************************************)
C7_CloneStartsOnAbsentDestination ==
    \A w \in Workflows :
        LET r == wf[w]
        IN  /\ \A i \in DOMAIN r.spawned :
                   r.spawned[i].cmd = "git clone" => ~r.spawned[i].destExists
            /\ (r.rmOutcome \in {"throwsIntact", "throwsPartial"} =>
                    r.spawned = <<>> /\ r.pc = "failed" /\ r.thrown = RmError)
            /\ (r.rmOutcome = "removed" =>
                    existsSync(r.seen) /\ r.spawned # <<>>
                    /\ r.fsOps[1] = "rmSync project")

C7_Witness ==
    \E w \in Workflows :
        /\ wf[w].rmOutcome = "removed"
        /\ wf[w].seen = Old
        /\ wf[w].pc = "cloning"
        /\ dirs[fullProjectPath(wf[w])] = Absent

(***************************************************************************)
(* C8: whatever is written to templates.json is a structurally valid       *)
(* catalog: every category a mapping, every template with a non-empty      *)
(* repository.                                                             *)
(***************************************************************************)
C8_OnlyValidCatalogsPersisted ==
    [][file' # file => ~ParseThrows(file') /\ ValidCatalog(JSONparse(file'))]_vars

(***************************************************************************)
(* C9: a run that found no templates file works on the default catalog of  *)
(* three categories, and the file has been created.                        *)
(***************************************************************************)
C9_MissingFileLoadsDefaults ==
    \A w \in Workflows :
        LET r == wf[w]
        IN  (r.pc # "idle" /\ r.loaded = Missing) =>
                /\ r.templates = getDefaultTemplates
                /\ file # Missing

(***************************************************************************)
(* C10: a run that found a malformed templates file (unparseable, or not a *)
(* mapping of categories to mappings) works on an empty catalog and ends   *)
(* without an exception and without touching the file system.              *)
(***************************************************************************)
C10_MalformedFileLoadsEmpty ==
    \A w \in Workflows :
        LET r == wf[w]
        IN  (r.pc # "idle" /\ r.loaded # Missing /\ Malformed(r.loaded)) =>
                /\ EmptyCatalog(r.templates)
                /\ r.thrown = NoError
                /\ r.spawned = <<>>
                /\ r.fsOps = <<>>

(***************************************************************************)
(* What the properties of the sidebar read off a form and the file.        *)
(***************************************************************************)
\* The catalog a load of the file returns.
Loaded(f) == loadTemplates(f).v

\* The file holds a catalog: a mapping from categories to mappings.
HoldsCatalog(f) == f # Missing /\ ~Malformed(f)

\* The catalog with template tmpl put at [c][n] and nothing else changed.
Upsert(v, c, n, tmpl) ==
    LET old == IF c \in DOMAIN v.m THEN v.m[c].m ELSE NoKeys
    IN  JObj([k \in DOMAIN v.m \cup {c} |->
                 IF k = c
                 THEN JObj([j \in DOMAIN old \cup {n} |-> IF j = n THEN tmpl ELSE old[j]])
                 ELSE v.m[k]])

\* Form f got its fifth answer in this step, and the answer was not a
\* dismissal: the user has submitted a template.
Submits(f) ==
    /\ forms[f].pc = FormPrompts[Len(FormPrompts)]
    /\ forms'[f].pc # forms[f].pc
    /\ forms'[f].last # JUndef

\* The template the user submitted through form f.
Submitted(frm) == NewTemplate(frm.description, frm.repo, frm.last.s)

(***************************************************************************)
(* C11: when a template is submitted through the add-template form while   *)
(* the file holds a catalog, the file afterwards loads as that catalog     *)
(* with the template put at [category][name]: the category is created if   *)
(* it was absent, a template of that name is replaced, every other         *)
(* category and template is as before; on the empty catalog the result is  *)
(* one category holding one template.                                      *)
(***************************************************************************)
C11_AddTemplateUpserts ==
    [][\A f \in Forms :
          (Submits(f) /\ HoldsCatalog(file)) =>
              /\ Loaded(file') = Upsert(JSONparse(file), forms[f].category,
                                        forms[f].name, Submitted(forms'[f]))
              /\ EmptyCatalog(JSONparse(file)) =>
                     /\ Cardinality(ObjectKeys(Loaded(file'))) = 1
                     /\ \A c \in ObjectKeys(Loaded(file')) :
                            Cardinality(ObjectKeys(Get(Loaded(file'), c))) = 1]_vars

(***************************************************************************)
(* C12: a run is past the project-name step only with a name that is not   *)
(* empty and consists of letters, digits, hyphens and underscores; the     *)
(* conflict check, a removal and the clone happen only then, and the empty *)
(* text and texts with '/', a space or '.' are never accepted.             *)
(***************************************************************************)
MatchesNamePattern(s) ==
    /\ Chars[s] # <<>>
    /\ \A i \in DOMAIN Chars[s] : Chars[s][i] \in {"a", "b", "p", "-", "_"}

C12_OnlyValidNamesProceed ==
    /\ \A s \in {"", "a/b", "a b", "a.b"} : validateInput(s) # JNull
    /\ \A w \in Workflows :
           LET r == wf[w]
               pastName == \/ r.pc \in {"location", "browse", "overwrite", "cloning",
                                        "installing", "successPrompt", "done"}
                           \/ r.fsOps # <<>>
                           \/ r.spawned # <<>>
                           \/ "location" \in {r.answers[i].prompt : i \in DOMAIN r.answers}
           IN  pastName => /\ r.projectName.t = "string"
                           /\ MatchesNamePattern(r.projectName.s)

\* A run that removed the old directory and spawned the clone.
C12_Witness ==
    \E w \in Workflows :
        /\ wf[w].fsOps # <<>>
        /\ wf[w].spawned # <<>>
        /\ MatchesNamePattern(wf[w].projectName.s)

(***************************************************************************)
(* C13: a run that reached the install stage with a template whose         *)
(* post-install command is empty spawned nothing but the clone, saw no     *)
(* install child end, logged no install output, and is completed with the  *)
(* success message.                                                        *)
(***************************************************************************)
InstallStageReached(r) == \E i \in DOMAIN r.progress : r.progress[i].increment = 60

C13_EmptyPostInstallSkipped ==
    \A w \in Workflows :
        LET r == wf[w]
        IN  (InstallStageReached(r) /\ ~Truthy(Get(r.template, "post-install"))) =>
                /\ Len(r.spawned) = 1
                /\ r.spawned[1].cmd = "git clone"
                /\ r.installExit = "none"
                /\ r.child = NoChild
                /\ "Post-install output:" \notin Range(channel)
                /\ "  install output" \notin Range(channel)
                /\ "No post-install command specified" \in Range(channel)
                /\ r.pc \in {"successPrompt", "done"}
                /\ ReportedOutcome(r) = "Success"

C13_Witness ==
    \E w \in Workflows :
        /\ InstallStageReached(wf[w])
        /\ Get(wf[w].template, "post-install") = JStr("")
        /\ wf[w].pc = "done"

(***************************************************************************)
(* C14: a run whose clone exited with code 0 has reached the install       *)
(* stage, whether the clone left a .git directory or not; when there was   *)
(* none, that was logged; and from the install stage on the project        *)
(* directory holds no .git directory.                                      *)
(***************************************************************************)
C14_StripThenInstall ==
    \A w \in Workflows :
        LET r == wf[w]
        IN  /\ r.cloneExit = "0" => InstallStageReached(r) /\ r.pc # "failed"
            /\ (r.cloneExit = "0" /\ r.stripOutcome = "absent") =>
                   "No .git folder found to remove" \in Range(channel)
            /\ InstallStageReached(r) => ~dirs[fullProjectPath(r)].git

(***************************************************************************)
(* C15: a run whose removal of the .git directory threw has gone on to the *)
(* install stage, has logged the failure, and has not ended as failed.     *)
(***************************************************************************)
C15_StripFailureTolerated ==
    \A w \in Workflows :
        LET r == wf[w]
        IN  r.stripOutcome = "threw" =>
                /\ InstallStageReached(r)
                /\ r.pc # "failed"
                /\ r.thrown = NoError

(***************************************************************************)
(* C16: of two runs at once, neither removes, on an overwrite, the         *)
(* directory the other is cloning into or installing in, and the two are   *)
(* never cloning into the same path.                                       *)
(***************************************************************************)
\* Run w removed its destination in this step.
RemovesProject(w) ==
    /\ Len(wf'[w].fsOps) > Len(wf[w].fsOps)
    /\ wf'[w].fsOps[Len(wf'[w].fsOps)] = "rmSync project"

C16_RunsKeepApart ==
    [][\A w \in Workflows : \A v \in Workflows \ {w} :
          /\ (RemovesProject(w) /\ wf[v].pc \in {"cloning", "installing"}) =>
                 fullProjectPath(wf[v]) # fullProjectPath(wf[w])
          /\ (wf'[w].pc = "cloning" /\ wf'[v].pc = "cloning") =>
                 fullProjectPath(wf'[v]) # fullProjectPath(wf'[w])]_vars

(***************************************************************************)
(* C17: a run works on the catalog it loaded when it started: the          *)
(* repository its clone was spawned with and the command its install was   *)
(* spawned with are those of the selected template in that catalog,        *)
(* whatever saveTemplates or addTemplate has written to the file since.    *)
(***************************************************************************)
\* The selected template as the catalog loaded at the start has it.
SnapshotTemplate(r) ==
    Get(Get(Loaded(r.loaded), r.selectedCategory.s), r.selectedTemplate.s)

C17_WorksOnSnapshot ==
    \A w \in Workflows :
        LET r == wf[w]
        IN  /\ r.pc # "idle" => r.templates = Loaded(r.loaded)
            /\ r.spawned # <<>> =>
                   /\ r.template = SnapshotTemplate(r)
                   /\ r.spawned[1].arg = ToText(Get(SnapshotTemplate(r), "git-repository"))
            /\ Len(r.spawned) >= 2 =>
                   r.spawned[2].arg = ToText(Get(SnapshotTemplate(r), "post-install"))

\* The install was spawned with the snapshot's command although the form
\* has replaced the template in the file since the run started.
C17_Witness ==
    \E w \in Workflows :
        /\ Len(wf[w].spawned) = 2
        /\ wf[w].spawned[1].arg = "r.git"
        /\ wf[w].spawned[2].arg = "make"
        /\ file # wf[w].loaded
        /\ Get(Get(Loaded(file), "node"), "t") = NewTemplate("custom", "x.git", "build")

(***************************************************************************)
(* C18: every step that changes the templates file is one writer's write   *)
(* of a whole document: saveTemplates leaves the file equal to the text it *)
(* was sent, and addTemplate leaves it equal to the document it read in    *)
(* the same step with the template put in, so whatever was written before  *)
(* its write is still there, whichever way saves and forms interleave.     *)
(***************************************************************************)
SaveWrote ==
    /\ forms' = forms /\ init' = init
    /\ file' \in EditorTexts /\ ~ParseThrows(file')

FormWrote(f) ==
    /\ Submits(f) /\ forms'[f].pc = "written"
    /\ \A g \in Forms \ {f} : forms'[g] = forms[g]
    /\ file # Missing /\ ~ParseThrows(file)
    /\ HoldsCatalog(file) =>
           Loaded(file') = Upsert(JSONparse(file), forms[f].category, forms[f].name,
                                  Submitted(forms'[f]))

InitWrote == init = "fetching" /\ init' = "done" /\ forms' = forms

C18_WholeFileLastWriterWins ==
    [][/\ file' # file => SaveWrote \/ InitWrote \/ \E f \in Forms : FormWrote(f)
       /\ \A f \in Forms : (Submits(f) /\ forms'[f].pc = "written") => FormWrote(f)]_vars

\* Both forms have written, one after the other, and the file holds the
\* template of each.
C18_Witness ==
    /\ \A f \in Forms : forms[f].pc = "written"
    /\ forms["f1"].category # forms["f2"].category
    /\ \A f \in Forms :
           Get(Get(Loaded(file), forms[f].category), forms[f].name)
               = Submitted(forms[f])

(***************************************************************************)
(* What the properties of the streaming read off a stream.                 *)
(***************************************************************************)
\* The positions of the line feeds in a text.
LineFeeds(cs) == {i \in DOMAIN cs : cs[i] = "\n"}

\* The k-th complete line of a text: what stands between the line feed
\* before it and its own.
LineEndingAt(cs, i) ==
    LET before == {j \in LineFeeds(cs) : j < i}
        from == IF before = {} THEN 1
                ELSE (CHOOSE j \in before : \A h \in before : h <= j) + 1
    IN  SubSeq(cs, from, i - 1)

\* What follows the last line feed.
Unterminated(cs) ==
    LET n == LineFeeds(cs)
    IN  IF n = {} THEN cs
        ELSE SubSeq(cs, (CHOOSE j \in n : \A h \in n : h <= j) + 1, Len(cs))

Blank(line) == \A i \in DOMAIN line : line[i] \in WhiteSpace

\* The lines logged for stream s, in order.
LoggedFrom(st, s) == SelectSeq(st.log, LAMBDA e : e.from = s)

\* The entries that forwarding the complete lines of a text yields: one per
\* line feed whose line is not blank, in order.
RECURSIVE Entries(_, _, _)
Entries(s, cs, feeds) ==
    IF feeds = {} THEN <<>>
    ELSE LET i == CHOOSE j \in feeds : \A h \in feeds : j <= h
             line == LineEndingAt(cs, i)
         IN  (IF Blank(line) THEN <<>> ELSE <<LogLine(s, trim(line))>>)
             \o Entries(s, cs, feeds \ {i})

FinalEntry(s, cs) ==
    IF Blank(Unterminated(cs)) THEN <<>> ELSE <<LogLine(s, trim(Unterminated(cs)))>>

RECURSIVE Sum(_)
Sum(q) == IF q = <<>> THEN 0 ELSE Head(q) + Sum(Tail(q))

\* The total of the increments after each report.
RunningTotals(r) ==
    [i \in DOMAIN r.progress |-> Sum(SubSeq(Increments(r), 1, i))]

C20_PercentAtCheckpoints ==
    \A w \in Workflows :
        LET r == wf[w]
        IN  /\ IsPrefix(RunningTotals(r), <<0, 40, 60, 100>>)
            /\ \A i \in DOMAIN r.progress : RunningTotals(r)[i] <= 100
            /\ ReportedOutcome(r) = "Success" =>
                   /\ RunningTotals(r) = <<0, 40, 60, 100>>
                   /\ [i \in DOMAIN r.progress |-> r.progress[i].message]
                          = <<"Cloning repository", "Cleaning up git history",
                              "Installing dependencies", "Project created successfully">>

(***************************************************************************)
(* C21: a template submitted with an empty post-install command (the box   *)
(* accepted empty, not dismissed) is taken like any other: the form        *)
(* writes, and the file afterwards holds the template, its post-install    *)
(* empty, at [category][name].                                             *)
(***************************************************************************)
C21_EmptyPostInstallAccepted ==
    [][\A f \in Forms :
          (Submits(f) /\ forms'[f].last = JStr("") /\ HoldsCatalog(file)) =>
              /\ forms'[f].pc = "written"
              /\ Get(Get(Loaded(file'), forms[f].category), forms[f].name)
                     = NewTemplate(forms[f].description, forms[f].repo, "")]_vars

(***************************************************************************)
(* C22: a saveTemplates message whose text is not parseable JSON is        *)
(* answered with the error message, and the step that handles it leaves    *)
(* the templates file exactly as it was; a step of saveTemplates changes   *)
(* the file only to a text that parses.                                    *)
(***************************************************************************)
\* A step of the sidebar that is neither a form's nor initialisation's: a
\* saveTemplates message handled.
SaveStep == forms' = forms /\ init' = init

C22_UnparseableSaveChangesNothing ==
    [][SaveStep =>
          /\ saveNotice'.sent = "garbage" =>
                 /\ saveNotice'.message = "Failed to save templates"
                 /\ file' = file
          /\ file' # file => ~ParseThrows(file')]_vars

\* An unparseable text was sent over a file holding a catalog, which is
\* still there.
C22_Witness ==
    /\ saveNotice = [sent |-> "garbage", message |-> "Failed to save templates"]
    /\ HoldsCatalog(file)
    /\ \A f \in Forms : forms[f].pc = "idle"

(***************************************************************************)
(* C23: a step of initializeConfig changes the templates file only when    *)
(* there is none: a file that exists when initialisation starts, or that   *)
(* saveTemplates or a form created while the fetch was pending, is the     *)
(* same after the step.                                                    *)
(***************************************************************************)
InitStep == init' # init

C23_InitNeverOverwrites ==
    [][(InitStep /\ file # Missing) => file' = file]_vars

(***************************************************************************)
(* C24: the lines logged for a stream do not depend on how its output is   *)
(* cut into chunks.  At every chunk boundary, what has been logged         *)
(* followed by what one chunk holding the buffered rest and all output     *)
(* still to come would log is what the whole output arriving as one chunk  *)
(* logs; after the close the log of a stream is exactly the lines of its   *)
(* whole output that are not blank, trimmed, in order, each once.          *)
(***************************************************************************)
\* What a text logs when it arrives as a single chunk followed by the close.
WholeLog(s, cs) == Entries(s, cs, LineFeeds(cs)) \o FinalEntry(s, cs)

C24_ChunkingDoesNotMatter ==
    \A s \in Streams :
        /\ stream.phase = "running" =>
               LoggedFrom(stream, s)
                     \o WholeLog(s, stream.buffer[s] \o stream.out[s])
                   = WholeLog(s, stream.received[s] \o stream.out[s])
        /\ stream.phase = "closed" =>
               /\ LoggedFrom(stream, s) = WholeLog(s, stream.received[s])
               /\ Len(LoggedFrom(stream, s))
                      = Cardinality({i \in LineFeeds(stream.received[s]) :
                                        ~Blank(LineEndingAt(stream.received[s], i))})
                        + (IF Blank(Unterminated(stream.received[s])) THEN 0 ELSE 1)

\* A chunk ended inside a line: its first part is buffered, the rest and its
\* line feed are still to come.
C24_Witness ==
    /\ stream.phase = "running"
    /\ stream.buffer["stdout"] = <<"a">>
    /\ stream.out["stdout"] = <<"a", "\n">>
    /\ stream.log = <<>>

(***************************************************************************)
(* C26: a step of addTemplateForm in which a prompt is dismissed ends the  *)
(* call and leaves the templates file as it was; so does the step after    *)
(* the fifth answer when the file is missing or cannot be parsed: the      *)
(* read throws, and nothing is written.                                    *)
(***************************************************************************)
\* Form f's prompt was dismissed in this step.
Cancels(f) ==
    /\ forms[f].pc \in Range(FormPrompts)
    /\ forms'[f] # forms[f]
    /\ forms'[f].last = JUndef

\* Form f reached its read step and found no file, or one that is no JSON.
ReadFails(f) ==
    /\ Submits(f)
    /\ Truthy(forms'[f].last)
    /\ file = Missing \/ ParseThrows(file)

C26_NoWriteOnCancelOrBadFile ==
    [][\A f \in Forms :
          /\ Cancels(f) => forms'[f].pc = "returned" /\ file' = file
          /\ ReadFails(f) => forms'[f].pc = "threw" /\ file' = file]_vars

\* One form was dismissed at a prompt, the other got all five answers and
\* found no file to read; there is still none.
C26_Witness ==
    /\ file = Missing
    /\ forms["f1"].pc = "threw"
    /\ forms["f2"].pc = "returned" /\ forms["f2"].last = JUndef

(***************************************************************************)
(* C25: with every prompt returning and every child ending in 'close' or   *)
(* 'error', a run that was started ends aborted, failed or done, and stays *)
(* what it ended as; ending, it has left the clone and the install.  The  *)
(* promise of execStreamAsync is settled in the end, keeps its first       *)
(* settlement whatever the child emits afterwards, and is resolved only by *)
(* a 'close' with exit code 0.                                             *)
(***************************************************************************)
Outcomes == {"aborted", "failed", "done"}

Ended(w) == wf[w].pc \in Outcomes

\* The promise was settled before this step.
Settled == stream.phase # "none" /\ stream.settled # "pending"

====
